---- MODULE Spec2Model ----
(***************************************************************************)
(* Model of DataCollection.py: the feature engine (compute_features), the  *)
(* per-symbol pipeline (process_symbol) and the thread-pool orchestrator.  *)
(*                                                                         *)
(* Two specifications share the variables:                                 *)
(*   SpecFE  - compute_features applied (twice) to a bounded input frame;  *)
(*   Spec    - the executor block running process_symbol for each symbol.  *)
(***************************************************************************)
EXTENDS Integers, Sequences, FiniteSets, TLC

(***************************************************************************)
(* Bounds of the model.                                                    *)
(***************************************************************************)
\* most bars in one input frame of compute_features
MaxBars == 3
\* significand width of the floating-point format (binary64 has 53; the
\* rounding behaviour is the same at any width, the model keeps it small)
MantBits == 3

\* most symbols in the symbol list
NSymbols == 3
\* most dates in the trading calendar
MaxDates == 3
\* the pool's configured maximum of worker threads (4 in the program's
\* configuration; kept below NSymbols here so that tasks queue)
ConfiguredMax == 2

\* bars of one date: the timestamps d*DayLen .. d*DayLen + DayLen - 1 have
\* date d (an input frame's timestamps are 0 .. MaxBars, so its last slot
\* falls on the next date)
DayLen == MaxBars
\* volumes a bar may carry (non-negative)
Volumes == 0 .. 2

RECURSIVE Pow2(_)
Pow2(k) == IF k = 0 THEN 1 ELSE 2 * Pow2(k - 1)

(***************************************************************************)
(* Floating point.  A finite non-negative float is held as an integer      *)
(* count of the smallest spacing; it has at most MantBits significant      *)
(* bits.  Every arithmetic result is rounded to nearest, ties to even, as  *)
(* numpy's float64 operations are.  The integers that enter (volumes and   *)
(* their running sums) stay below 2^MantBits, so they convert exactly.     *)
(***************************************************************************)
NaN == -1000000
Inf == 1000000
\* a defined value whose magnitude the model does not follow
Num == 0

IsNaN(x) == x = NaN

\* n/d rounded to the nearest integer, ties to the even one
RoundHalfEven(n, d) ==
    LET q == n \div d
        r == n % d
    IN  IF 2 * r < d THEN q
        ELSE IF 2 * r > d THEN q + 1
        ELSE IF q % 2 = 0 THEN q ELSE q + 1

RECURSIVE Binade(_, _, _)
\* least k >= 0 with n/d < 2^(MantBits + k): the spacing of floats there is 2^k
Binade(n, d, k) == IF n < Pow2(MantBits + k) * d THEN k ELSE Binade(n, d, k + 1)

\* the float nearest to the non-negative rational n/d
FlRound(n, d) ==
    LET k == Binade(n, d, 0)
    IN  Pow2(k) * RoundHalfEven(n, d * Pow2(k))

\* float * number (line 131: close * volume)
FMul(a, b) == IF IsNaN(a) \/ IsNaN(b) THEN NaN ELSE FlRound(a * b, 1)

\* float + float (one step of a cumsum)
FAdd(a, b) == IF IsNaN(a) \/ IsNaN(b) THEN NaN ELSE FlRound(a + b, 1)

\* a division that yields 0 where the divisor is 0
FDivZeroFill(a, b) ==
    IF IsNaN(a) \/ IsNaN(b) THEN NaN
    ELSE IF b = 0 THEN 0
    ELSE FlRound(a, b)

\* float / number (line 133); numpy gives NaN for 0/0 and inf for x/0, no fault
FDiv(a, b) ==
    IF IsNaN(a) \/ IsNaN(b) THEN NaN
    ELSE IF b = 0 THEN (IF a = 0 THEN NaN ELSE Inf)
    ELSE FlRound(a, b)

\* float - float (line 136), a signed result
FSub(a, b) ==
    IF IsNaN(a) \/ IsNaN(b) THEN NaN
    ELSE IF b = Inf THEN -Inf
    ELSE IF a >= b THEN FlRound(a - b, 1) ELSE -FlRound(b - a, 1)

\* stored value of the price with significand m (prices sit two binades
\* above the smallest spacing, so that an average may round below them)
Price(m) == 4 * m
\* the closes a bar may carry: the two largest significands of a binade
Closes == {Price(Pow2(MantBits) - 1), Price(Pow2(MantBits) - 2)}

(***************************************************************************)
(* Data frames.  A frame is [columns, rows]: the ordered column names and  *)
(* the rows, each row a function from the column names to values.  The     *)
(* columns no derived feature of this model reads (time, hour,             *)
(* day_of_week, open, high, low) are left out, and with them price_trend   *)
(* and time_of_day, which are never NaN and so never decide a dropped row. *)
(***************************************************************************)
BaseColumns == <<"symbol", "timestamp", "date", "close", "volume">>

\* line 101: the date of a bar is derived from its timestamp
DateOf(ts) == ts \div DayLen

\* one row as get_intraday_ohlcv builds it (lines 98-106)
Bar(sym, ts, c, v) ==
    [symbol |-> sym, timestamp |-> ts, date |-> DateOf(ts), close |-> c, volume |-> v]

\* lines 61-69: the dates flagged as macro event days
macro_event_dates == {0}

Range(seq) == {seq[i] : i \in DOMAIN seq}

\* the function f itself, held as an enumerated value rather than as a rule
Explicit(f) == f @@ <<>>

\* df[name] = vals: an existing column is overwritten in place, a new one is
\* appended as the last column
SetColumn(frame, name, vals) ==
    [columns |-> IF name \in Range(frame.columns) THEN frame.columns
                 ELSE Append(frame.columns, name),
     rows |-> Explicit([i \in DOMAIN frame.rows |->
                          (name :> vals[i]) @@ frame.rows[i]])]

\* the sort key of line 110
KeyLess(a, b) ==
    \/ a["symbol"] < b["symbol"]
    \/ a["symbol"] = b["symbol"] /\ a["timestamp"] < b["timestamp"]

RECURSIVE Insert(_, _)
\* r put into the sorted sequence rows, after the rows that are not greater
Insert(rows, r) ==
    IF rows = <<>> THEN <<r>>
    ELSE IF KeyLess(r, rows[1]) THEN <<r>> \o rows
    ELSE <<rows[1]>> \o Insert(Tail(rows), r)

RECURSIVE SortRows(_)
SortRows(rows) ==
    IF rows = <<>> THEN <<>>
    ELSE Insert(SortRows(SubSeq(rows, 1, Len(rows) - 1)), rows[Len(rows)])

\* line 110: df.sort_values(['symbol', 'timestamp'], inplace=True)
SortValues(frame) == [frame EXCEPT !.rows = SortRows(frame.rows)]

\* the groupby key of lines 113-132
GroupKey(row) == <<row["symbol"], row["date"]>>

\* the row before row i in i's group, 0 when i is the group's first row
PrevInGroup(rows, i) ==
    LET before == {j \in 1 .. i - 1 : GroupKey(rows[j]) = GroupKey(rows[i])}
    IN  IF before = {} THEN 0 ELSE CHOOSE j \in before : \A k \in before : k <= j

RECURSIVE CumVolumeUngrouped(_, _)
\* a cumsum taken over the whole frame, without the groupby
CumVolumeUngrouped(rows, i) ==
    IF i = 1 THEN rows[i]["volume"]
    ELSE CumVolumeUngrouped(rows, i - 1) + rows[i]["volume"]

RECURSIVE CumVolume(_, _)
\* line 113: groupby(['symbol', 'date'])['volume'].cumsum() at row i
CumVolume(rows, i) ==
    LET p == PrevInGroup(rows, i)
    IN  IF p = 0 THEN rows[i]["volume"]
        ELSE CumVolume(rows, p) + rows[i]["volume"]

\* line 116: groupby(...)['close'].pct_change() at row i; the value of a
\* defined return is not followed
PctChange(rows, i) == IF PrevInGroup(rows, i) = 0 THEN NaN ELSE Num

\* a population standard deviation (ddof=0), defined from the first return on
ExpandingStdPopulation(rows, i) ==
    LET seen == {j \in 1 .. i : /\ GroupKey(rows[j]) = GroupKey(rows[i])
                                /\ ~IsNaN(rows[j]["price_return"])}
    IN  IF Cardinality(seen) >= 1 THEN Num ELSE NaN

\* line 119: expanding().std() of the group's returns up to row i: the sample
\* standard deviation needs two returns that are not NaN
ExpandingStd(rows, i) ==
    LET seen == {j \in 1 .. i : /\ GroupKey(rows[j]) = GroupKey(rows[i])
                                /\ ~IsNaN(rows[j]["price_return"])}
    IN  IF Cardinality(seen) >= 2 THEN Num ELSE NaN

\* line 128: df['date'].isin(macro_event_dates).astype(int)
MacroEventDay(row) == IF row["date"] \in macro_event_dates THEN 1 ELSE 0

RECURSIVE CumPV(_, _)
\* line 132: groupby(['symbol', 'date'])['pv'].cumsum() at row i, a running
\* floating-point sum
CumPV(rows, i) ==
    LET p == PrevInGroup(rows, i)
    IN  IF p = 0 THEN rows[i]["pv"]
        ELSE FAdd(CumPV(rows, p), rows[i]["pv"])

RECURSIVE Without(_, _)
Without(cols, names) ==
    IF cols = <<>> THEN <<>>
    ELSE IF cols[1] \in names THEN Without(Tail(cols), names)
    ELSE <<cols[1]>> \o Without(Tail(cols), names)

\* line 139: df.drop(columns=[...]), a new frame
DropColumns(frame, names) ==
    [columns |-> Without(frame.columns, names),
     rows |-> Explicit([i \in DOMAIN frame.rows |->
                  Explicit([col \in DOMAIN frame.rows[i] \ names |->
                               frame.rows[i][col]])])]

HasNaN(row) == \E col \in DOMAIN row : IsNaN(row[col])

\* line 139: .dropna(), the rows with no NaN in any column
DropNa(frame) == [frame EXCEPT !.rows = SelectSeq(frame.rows, LAMBDA r : ~HasNaN(r))]

\* lines 109-139.  The statements assign into the frame they are given, so
\* the result is both the returned frame (ret) and the caller's frame as the
\* call leaves it (df).
compute_features(df) ==
    LET n == Len(df.rows)
        f0 == SortValues(df)
        f1 == SetColumn(f0, "cumulative_volume",
                        [i \in 1 .. n |-> CumVolume(f0.rows, i)])
        f2 == SetColumn(f1, "price_return", [i \in 1 .. n |-> PctChange(f1.rows, i)])
        f3 == SetColumn(f2, "intraday_volatility",
                        [i \in 1 .. n |-> ExpandingStd(f2.rows, i)])
        f4 == SetColumn(f3, "macro_event_day",
                        [i \in 1 .. n |-> MacroEventDay(f3.rows[i])])
        f5 == SetColumn(f4, "pv",
                        [i \in 1 .. n |-> FMul(f4.rows[i]["close"], f4.rows[i]["volume"])])
        f6 == SetColumn(f5, "cumulative_pv", [i \in 1 .. n |-> CumPV(f5.rows, i)])
        f7 == SetColumn(f6, "vwap",
                        [i \in 1 .. n |-> FDiv(f6.rows[i]["cumulative_pv"],
                                               f6.rows[i]["cumulative_volume"])])
        f8 == SetColumn(f7, "vwap_deviation",
                        [i \in 1 .. n |-> FSub(f7.rows[i]["close"], f7.rows[i]["vwap"])])
    IN  [ret |-> DropNa(DropColumns(f8, {"pv", "cumulative_pv"})), df |-> f8]

(***************************************************************************)
(* Input frames of compute_features: 1 to MaxBars bars of one symbol with  *)
(* distinct timestamps over two dates, the rows in ascending or in         *)
(* descending order of timestamp (the two orders the "sort" parameter of   *)
(* line 85 offers).                                                        *)
(***************************************************************************)
\* the ascending sequences of n timestamps out of 0 .. MaxBars
AscTimestamps(n) ==
    {t \in [1 .. n -> 0 .. MaxBars] : \A i \in 1 .. n - 1 : t[i] < t[i + 1]}

\* the bars with timestamps t and (close, volume) pairs cv, ascending
BarsOf(t, cv) == [i \in DOMAIN t |-> Bar(1, t[i], cv[i][1], cv[i][2])]

Reverse(seq) == [i \in DOMAIN seq |-> seq[Len(seq) + 1 - i]]

\* df is one of the input frames
IsInputFrame(frame) ==
    \E n \in 1 .. MaxBars :
        \E t \in AscTimestamps(n), cv \in [1 .. n -> Closes \X Volumes] :
            \E descending \in BOOLEAN :
                frame = [columns |-> BaseColumns,
                         rows |-> IF descending THEN Reverse(BarsOf(t, cv))
                                  ELSE BarsOf(t, cv)]

(***************************************************************************)
(* The program: module-level configuration, the thread pool and one        *)
(* process_symbol run per symbol.                                          *)
(***************************************************************************)
VARIABLES
    df,           \* the frame the caller holds and passes to compute_features
    df0,          \* the frame as it was before the first call
    ret,          \* the frames compute_features returned, in call order
    symbols,      \* line 50: the symbol list
    dates,        \* line 78: the trading calendar, ascending
    orch,         \* where the main thread is: "submit", "collect", "complete"
    futures,      \* line 181: the symbols submitted to the executor, in order
    collected,    \* the futures whose result() the main thread has taken
    threadErrors, \* the symbols whose exception line 187 has logged
    pc,           \* per symbol: where its process_symbol run is
    cursor,       \* per symbol: index into dates of the loop of line 147
    year_data,    \* per symbol: line 145, year -> list of enriched chunks
    flushed,      \* per symbol: the years the loop of line 168 has written
    files,        \* the output directory: <<symbol, year>> -> rows of the csv
    waited,       \* per symbol: time slept since its last fetch, in 0.1 s
    lastGap,      \* per symbol: time slept between its last two fetches
    log,          \* per symbol: what each date attempted so far came to
    runs          \* per symbol: how many times process_symbol was entered

feVars == <<df, df0, ret>>
progVars == <<symbols, dates, orch, futures, collected, threadErrors, pc, cursor,
              year_data, flushed, files, waited, lastGap, log, runs>>
vars == <<feVars, progVars>>

AllSymbols == 1 .. NSymbols

Min(a, b) == IF a <= b THEN a ELSE b

\* a pool as wide as the symbol list
MaxThreadsUnbounded == Len(symbols)

\* line 57: MAX_THREADS = min(4, len(symbols))
MAX_THREADS == Min(ConfiguredMax, Len(symbols))

\* line 161: time.sleep(1.1), in tenths of a second
SleepTenths == 11
\* no gap measured yet: fewer than two fetches made
NoGap == 0 - 1

\* dates per calendar year (the model's years are short)
DaysPerYear == 2
\* line 154: pd.to_datetime(date).year
YearOf(date) == date \div DaysPerYear

\* lines 72-76: an ascending run of consecutive business days
Calendars ==
    {[i \in 1 .. n |-> first + i] : first \in 0 .. 1, n \in 0 .. MaxDates}

\* the sizes of the frames a successful fetch may return: a single bar, or a
\* full day of DayLen bars
FetchSizes == {1, DayLen}

\* the frame of n bars fetched for (sym, date), lines 98-106
FetchFrame(sym, date, n) ==
    [columns |-> BaseColumns,
     rows |-> [i \in 1 .. n |->
                 Bar(sym, date * DayLen + (i - 1), Price(Pow2(MantBits) - 1), 1)]]

ProgInit ==
    /\ \E n \in 1 .. NSymbols : symbols = [i \in 1 .. n |-> i]
    /\ dates \in Calendars
    /\ Len(symbols) = 1 \/ dates = <<1>>
    /\ orch = "submit"
    /\ futures = <<>>
    /\ collected = {}
    /\ threadErrors = {}
    /\ pc = [s \in AllSymbols |-> "idle"]
    /\ cursor = [s \in AllSymbols |-> 1]
    /\ year_data = [s \in AllSymbols |-> <<>>]
    /\ flushed = [s \in AllSymbols |-> {}]
    /\ files = <<>>
    /\ waited = [s \in AllSymbols |-> 0]
    /\ lastGap = [s \in AllSymbols |-> NoGap]
    /\ log = [s \in AllSymbols |-> <<>>]
    /\ runs = [s \in AllSymbols |-> 0]

\* the feature-engine state while the program runs: no frame under study
FEIdle ==
    /\ df = [columns |-> BaseColumns, rows |-> <<>>]
    /\ df0 = df
    /\ ret = <<>>

\* the program state while compute_features is studied alone
ProgIdle ==
    /\ symbols = <<1>>
    /\ dates = <<>>
    /\ orch = "submit"
    /\ futures = <<>>
    /\ collected = {}
    /\ threadErrors = {}
    /\ pc = [s \in AllSymbols |-> "idle"]
    /\ cursor = [s \in AllSymbols |-> 1]
    /\ year_data = [s \in AllSymbols |-> <<>>]
    /\ flushed = [s \in AllSymbols |-> {}]
    /\ files = <<>>
    /\ waited = [s \in AllSymbols |-> 0]
    /\ lastGap = [s \in AllSymbols |-> NoGap]
    /\ log = [s \in AllSymbols |-> <<>>]
    /\ runs = [s \in AllSymbols |-> 0]

InitFE ==
    /\ IsInputFrame(df)
    /\ df0 = df
    /\ ret = <<>>
    /\ ProgIdle

\* one call compute_features(df) on the caller's frame; two calls are made
CallComputeFeatures ==
    /\ Len(ret) < 2
    /\ LET r == compute_features(df)
       IN  /\ ret' = Append(ret, r.ret)
           /\ df' = r.df
    /\ UNCHANGED <<df0, progVars>>

NextFE == CallComputeFeatures

SpecFE == InitFE /\ [][NextFE]_vars

(***************************************************************************)
(* The executor block, lines 180-189.                                      *)
(***************************************************************************)
Running == {"fetch", "sleep", "flush"}

\* the pipelines a worker thread is executing
Active == {s \in AllSymbols : pc[s] \in Running}

\* line 181: executor.submit(process_symbol, symbol), one symbol per step; the
\* list comprehension ends after the last symbol and the loop of line 183 begins
Submit ==
    /\ orch = "submit"
    /\ Len(futures) < Len(symbols)
    /\ LET sym == symbols[Len(futures) + 1]
       IN  /\ futures' = Append(futures, sym)
           /\ pc' = [pc EXCEPT ![sym] = "queued"]
    /\ orch' = IF Len(futures) + 1 = Len(symbols) THEN "collect" ELSE "submit"
    /\ UNCHANGED <<feVars, symbols, dates, collected, threadErrors, cursor,
                   year_data, flushed, files, waited, lastGap, log, runs>>

\* the pc of a pipeline whose loop of line 147 moves to index c
LoopAt(c) == IF c <= Len(dates) THEN "fetch" ELSE "flush"

\* a worker thread takes the oldest queued task (the pool runs at most
\* MAX_THREADS at once) and enters process_symbol, lines 142-147
Start(s) ==
    /\ pc[s] = "queued"
    /\ \A i, j \in DOMAIN futures :
          (futures[j] = s /\ i < j) => pc[futures[i]] # "queued"
    /\ Cardinality(Active) < MAX_THREADS
    /\ pc' = [pc EXCEPT ![s] = LoopAt(1)]
    /\ cursor' = [cursor EXCEPT ![s] = 1]
    /\ runs' = [runs EXCEPT ![s] = @ + 1]
    /\ UNCHANGED <<feVars, symbols, dates, orch, futures, collected, threadErrors,
                   year_data, flushed, files, waited, lastGap, log>>

(***************************************************************************)
(* process_symbol, lines 142-175.                                          *)
(***************************************************************************)
\* the fetch of line 149 is one more request: the time slept since the
\* previous request of this symbol is what separated the two
NoteRequest(s) ==
    /\ lastGap' = [lastGap EXCEPT ![s] = IF log[s] = <<>> THEN NoGap ELSE waited[s]]
    /\ waited' = [waited EXCEPT ![s] = 0]

Logged(s, outcome, rows) ==
    log' = [log EXCEPT ![s] = Append(@, [date |-> dates[cursor[s]],
                                         outcome |-> outcome,
                                         rows |-> rows])]

\* the loop of line 147 goes on with the next date
Continue(s) ==
    /\ cursor' = [cursor EXCEPT ![s] = @ + 1]
    /\ pc' = [pc EXCEPT ![s] = LoopAt(cursor[s] + 1)]

\* an exception of the try body that is not caught leaves process_symbol
Propagate(s) ==
    /\ pc' = [pc EXCEPT ![s] = "failed"]
    /\ UNCHANGED cursor

\* no handler around the loop body: the exception leaves process_symbol
OnDateExceptionUncaught(s) == Propagate(s)

\* lines 163-165: except Exception: print, continue
OnDateException(s) == Continue(s)

\* line 149 raises (a transport error, a payload that is not the expected
\* JSON) or line 153 raises on the bars fetched: caught at line 163
DateRaises(s) ==
    /\ pc[s] = "fetch"
    /\ NoteRequest(s)
    /\ Logged(s, "error", <<>>)
    /\ OnDateException(s)
    /\ UNCHANGED <<feVars, symbols, dates, orch, futures, collected, threadErrors,
                   year_data, flushed, files, runs>>

\* lines 90-96 and 150-151: a status other than 200, or a payload without
\* "results", gives an empty frame and the date is passed over
FetchEmpty(s) ==
    /\ pc[s] = "fetch"
    /\ NoteRequest(s)
    /\ Logged(s, "empty", <<>>)
    /\ Continue(s)
    /\ UNCHANGED <<feVars, symbols, dates, orch, futures, collected, threadErrors,
                   year_data, flushed, files, runs>>

\* year_data[year] = [chunk]: the year's list is replaced
AppendChunkOverwrites(yd, year, chunk) ==
    [y \in DOMAIN yd \cup {year} |-> IF y = year THEN <<chunk>> ELSE yd[y]]

\* year_data[year].append(chunk), with the list created on first use
\* (lines 156-159)
AppendChunk(yd, year, chunk) ==
    [y \in DOMAIN yd \cup {year} |->
        IF y = year
        THEN (IF year \in DOMAIN yd THEN Append(yd[year], chunk) ELSE <<chunk>>)
        ELSE yd[y]]

\* lines 149-159: bars are fetched, enriched and appended to the year's list
FetchBars(s) ==
    /\ pc[s] = "fetch"
    /\ NoteRequest(s)
    /\ \E n \in FetchSizes :
          LET enriched == compute_features(FetchFrame(s, dates[cursor[s]], n)).ret.rows
              year == YearOf(dates[cursor[s]])
          IN  /\ year_data' = [year_data EXCEPT ![s] = AppendChunk(@, year, enriched)]
              /\ Logged(s, "bars", enriched)
    /\ pc' = [pc EXCEPT ![s] = "sleep"]
    /\ UNCHANGED <<feVars, symbols, dates, orch, futures, collected, threadErrors,
                   cursor, flushed, files, runs>>

\* line 161: time.sleep(1.1), then the next date
Sleep(s) ==
    /\ pc[s] = "sleep"
    /\ waited' = [waited EXCEPT ![s] = @ + SleepTenths]
    /\ Continue(s)
    /\ UNCHANGED <<feVars, symbols, dates, orch, futures, collected, threadErrors,
                   year_data, flushed, files, lastGap, log, runs>>

RECURSIVE Concat(_)
\* line 170: pd.concat(data_chunks)
Concat(chunks) ==
    IF chunks = <<>> THEN <<>> ELSE chunks[1] \o Concat(Tail(chunks))

\* the years the loop of line 168 has still to write
Pending(s) == DOMAIN year_data[s] \ flushed[s]

\* sorted(year_data.items()): the least year comes next
NextYear(s) == CHOOSE y \in Pending(s) : \A z \in Pending(s) : y <= z

\* to_csv writes (replaces) the file at path
WriteFile(fs, path, rows) ==
    [q \in DOMAIN fs \cup {path} |-> IF q = path THEN rows ELSE fs[q]]

\* lines 168-173: one year's chunks are concatenated and written to
\* {symbol}_{year}.csv
FlushYear(s) ==
    /\ pc[s] = "flush"
    /\ Pending(s) # {}
    /\ LET year == NextYear(s)
       IN  /\ files' = WriteFile(files, <<s, year>>, Concat(year_data[s][year]))
           /\ flushed' = [flushed EXCEPT ![s] = @ \cup {year}]
    /\ UNCHANGED <<feVars, symbols, dates, orch, futures, collected, threadErrors,
                   pc, cursor, year_data, waited, lastGap, log, runs>>

\* line 172 raises (the file cannot be written): nothing in process_symbol
\* catches it, the exception is stored in the future
FlushRaises(s) ==
    /\ pc[s] = "flush"
    /\ Pending(s) # {}
    /\ Propagate(s)
    /\ UNCHANGED <<feVars, symbols, dates, orch, futures, collected, threadErrors,
                   year_data, flushed, files, waited, lastGap, log, runs>>

\* line 175: every year is written, process_symbol returns
Finish(s) ==
    /\ pc[s] = "flush"
    /\ Pending(s) = {}
    /\ pc' = [pc EXCEPT ![s] = "done"]
    /\ UNCHANGED <<feVars, symbols, dates, orch, futures, collected, threadErrors,
                   cursor, year_data, flushed, files, waited, lastGap, log, runs>>

(***************************************************************************)
(* The main thread after the submissions, lines 183-189.                   *)
(***************************************************************************)
Completed(s) == pc[s] \in {"done", "failed"}

\* lines 183-187: as_completed yields a future that has completed;
\* future.result() re-raises the pipeline's exception, which is caught and
\* logged
Collect(s) ==
    /\ orch = "collect"
    /\ s \in Range(futures) \ collected
    /\ Completed(s)
    /\ collected' = collected \cup {s}
    /\ threadErrors' = IF pc[s] = "failed" THEN threadErrors \cup {s} ELSE threadErrors
    /\ UNCHANGED <<feVars, symbols, dates, orch, futures, pc, cursor, year_data,
                   flushed, files, waited, lastGap, log, runs>>

\* the loop of line 183 ends once as_completed has yielded every future
LoopEnded == collected = Range(futures)

\* leaving the with block of line 180 is shutdown(wait=True): every submitted
\* task has run to its end
ExecutorDrained == \A s \in Range(futures) : Completed(s)

\* the main thread goes on after the first result it has taken, and the
\* executor is not waited for
MayCompleteAfterFirst == collected # {}

\* what lets the main thread reach line 189
MayComplete == LoopEnded /\ ExecutorDrained

\* lines 180-189: the loop over the futures has ended, the with block is
\* left and "All symbols processed." is printed
Complete ==
    /\ orch = "collect"
    /\ MayComplete
    /\ orch' = "complete"
    /\ UNCHANGED <<feVars, symbols, dates, futures, collected, threadErrors, pc,
                   cursor, year_data, flushed, files, waited, lastGap, log, runs>>

Init == FEIdle /\ ProgInit

Next ==
    \/ Submit
    \/ Complete
    \/ \E s \in AllSymbols :
          \/ Start(s)
          \/ DateRaises(s)
          \/ FetchEmpty(s)
          \/ FetchBars(s)
          \/ Sleep(s)
          \/ FlushYear(s)
          \/ FlushRaises(s)
          \/ Finish(s)
          \/ Collect(s)

Spec == Init /\ [][Next]_vars

(***************************************************************************)
(* Properties of compute_features (checked under SpecFE).                  *)
(***************************************************************************)
Called == Len(ret) >= 1

\* the bars of the original input that form the group of row r, up to r
GroupUpTo(r) ==
    {b \in Range(df0.rows) : /\ GroupKey(b) = GroupKey(r)
                             /\ b["timestamp"] <= r["timestamp"]}

\* all the bars of the original input in the group of row r
GroupOf(r) == {b \in Range(df0.rows) : GroupKey(b) = GroupKey(r)}

RECURSIVE SumVolumes(_)
SumVolumes(bars) ==
    IF bars = {} THEN 0
    ELSE LET b == CHOOSE x \in bars : TRUE
         IN  b["volume"] + SumVolumes(bars \ {b})

\* the rows a call handled: every row of the frame as the call left it
Computed == Range(df.rows)

\* the rows of the k-th returned frame
Returned(k) == Range(ret[k].rows)

\* C6: after a call, the cumulative_volume of every bar is the sum of the
\* volumes of the bars of its own (symbol, date) group up to and including
\* it; within a group it never decreases with the timestamp, and the first
\* bar of each group carries its own volume.
C6_CumulativeVolume ==
    Called =>
        /\ \A r \in Computed \cup Returned(1) :
              r["cumulative_volume"] = SumVolumes(GroupUpTo(r))
        /\ \A a, b \in Computed :
              (GroupKey(a) = GroupKey(b) /\ a["timestamp"] <= b["timestamp"])
                  => a["cumulative_volume"] <= b["cumulative_volume"]
        /\ \A r \in Computed :
              GroupUpTo(r) = {b \in GroupOf(r) : b["timestamp"] = r["timestamp"]}
                  => r["cumulative_volume"] = r["volume"]

\* a call on a frame of two groups, where a later group starts after a group
\* whose running volume is positive
C6_Witness ==
    /\ Called
    /\ \E i, j \in DOMAIN df.rows :
          /\ i < j
          /\ GroupKey(df.rows[i]) # GroupKey(df.rows[j])
          /\ df.rows[i]["cumulative_volume"] > df.rows[i]["volume"]
          /\ df.rows[j]["volume"] > 0
          /\ df.rows[j]["cumulative_volume"] = df.rows[j]["volume"]

\* the returned rows of the group of bar b
ReturnedOfGroup(b) == {r \in Returned(1) : GroupKey(r) = GroupKey(b)}

\* C8: a group of one bar yields no output row, a group of two bars at most
\* one, and a group of three bars of positive volume exactly one: its last
\* bar, with the three volumes summed in cumulative_volume.
C8_RowCutoff ==
    Called =>
        \A b \in Range(df0.rows) :
            LET g == GroupOf(b)
                out == ReturnedOfGroup(b)
            IN  /\ Cardinality(g) = 1 => out = {}
                /\ Cardinality(g) = 2 => Cardinality(out) <= 1
                /\ (Cardinality(g) = 3 /\ \A x \in g : x["volume"] > 0) =>
                      /\ Cardinality(out) = 1
                      /\ \A r \in out :
                            /\ \A x \in g : x["timestamp"] <= r["timestamp"]
                            /\ r["cumulative_volume"] = SumVolumes(g)

\* a call on a group of three bars of positive volume, with one row returned
C8_Witness ==
    /\ Called
    /\ \E b \in Range(df0.rows) :
          /\ Cardinality(GroupOf(b)) = 3
          /\ \A x \in GroupOf(b) : x["volume"] > 0
          /\ Len(ret[1].rows) = 1

\* C9: a bar whose running volume is zero has NaN in vwap and vwap_deviation
\* and is not in the returned frame; the call still returns, and the bars
\* with a defined return, volatility and positive running volume are in the
\* returned frame.
C9_ZeroVolume ==
    Called =>
        /\ \A r \in Computed :
              r["cumulative_volume"] = 0 =>
                  /\ IsNaN(r["vwap"])
                  /\ IsNaN(r["vwap_deviation"])
                  /\ ~\E x \in Returned(1) : x["timestamp"] = r["timestamp"]
        /\ \A r \in Computed :
              (r["cumulative_volume"] > 0 /\ Cardinality(GroupUpTo(r)) >= 3)
                  => \E x \in Returned(1) : x["timestamp"] = r["timestamp"]

\* a call on a group that opens with two zero-volume bars and whose third
\* bar is returned
C9_Witness ==
    /\ Called
    /\ \E r \in Computed :
          /\ r["cumulative_volume"] = 0
          /\ Cardinality(GroupUpTo(r)) = 2
    /\ ret[1].rows # <<>>

MinClose(bars) == CHOOSE c \in {b["close"] : b \in bars} :
                      \A b \in bars : c <= b["close"]
MaxClose(bars) == CHOOSE c \in {b["close"] : b \in bars} :
                      \A b \in bars : b["close"] <= c

\* C10: for every bar after the first of its group, the computed vwap lies
\* between the least and the greatest close of the group's bars up to it.
C10_VwapWithinCloses ==
    Called =>
        \A r \in Computed :
            (Cardinality(GroupUpTo(r)) >= 2 /\ ~IsNaN(r["vwap"])) =>
                /\ MinClose(GroupUpTo(r)) <= r["vwap"]
                /\ r["vwap"] <= MaxClose(GroupUpTo(r))

\* C7: a call leaves the frame it was given as it was, and a second call on
\* the same frame returns what the first returned.
C7_Pure ==
    /\ Called => df = df0
    /\ Len(ret) >= 2 => ret[2] = ret[1]

\* the second half of C7 alone
SecondCallSameOutput == Len(ret) >= 2 => ret[2] = ret[1]

(***************************************************************************)
(* Properties of process_symbol and of the executor block (checked under   *)
(* Spec).                                                                  *)
(***************************************************************************)
Listed == Range(symbols)

\* the dates process_symbol(s) has attempted so far, in order
Attempted(s) == [i \in DOMAIN log[s] |-> log[s][i].date]

\* C1: a date whose fetch or enrichment fails, or whose fetch is refused, is
\* passed over: the dates attempted are always the calendar's dates in
\* order up to the loop's position, the pipeline is past the loop only with
\* every date attempted, and it fails only while a year's file is being
\* written, never on a date.
C1_DateFailureSkipped ==
    \A s \in AllSymbols :
        /\ Attempted(s) = SubSeq(dates, 1, Len(log[s]))
        /\ pc[s] = "fetch" => Len(log[s]) = cursor[s] - 1
        /\ pc[s] \in {"flush", "done", "failed"} => Len(log[s]) = Len(dates)
        /\ pc[s] = "failed" => Pending(s) # {}

\* a pipeline that is done although a date raised and another was refused,
\* each followed by a date that was fetched and enriched
C1_Witness ==
    \E s \in Listed :
        /\ pc[s] = "done"
        /\ \E i, j, k \in DOMAIN log[s] :
              /\ i < j /\ j < k
              /\ log[s][i].outcome = "error"
              /\ log[s][j].outcome = "empty"
              /\ log[s][k].outcome = "bars"

\* C2: between two consecutive fetches of one symbol the pipeline has slept
\* at least the delay of line 161, whatever the earlier fetch came to.
C2_DelayBetweenFetches ==
    \A s \in AllSymbols : lastGap[s] # NoGap => lastGap[s] >= SleepTenths

\* the number of places of rows that hold row r
Occurrences(r, rows) == Cardinality({i \in DOMAIN rows : rows[i] = r})

\* the files of symbol s
FilesOf(s) == {q \in DOMAIN files : q[1] = s}

RECURSIVE TotalLen(_, _)
\* the summed length of f[x] over the x in keys
TotalLen(f, keys) ==
    IF keys = {} THEN 0
    ELSE LET x == CHOOSE k \in keys : TRUE
         IN  Len(f[x]) + TotalLen(f, keys \ {x})

\* the rows compute_features returned for the i-th date of symbol s
EnrichedRows(s) == [i \in DOMAIN log[s] |-> log[s][i].rows]

\* C3: when process_symbol has returned, every row compute_features returned
\* for a date is exactly once in the file of (symbol, year of that date) and
\* in no other file, the files hold nothing else, and every year that
\* accumulated a chunk has its file.
C3_WrittenExactlyOnce ==
    \A s \in AllSymbols :
        pc[s] = "done" =>
            /\ \A i \in DOMAIN log[s] :
                  log[s][i].outcome = "bars" =>
                      LET path == <<s, YearOf(log[s][i].date)>>
                      IN  /\ path \in DOMAIN files
                          /\ \A k \in DOMAIN log[s][i].rows :
                                /\ Occurrences(log[s][i].rows[k], files[path]) = 1
                                /\ \A q \in DOMAIN files \ {path} :
                                      Occurrences(log[s][i].rows[k], files[q]) = 0
            /\ TotalLen(files, FilesOf(s)) = TotalLen(EnrichedRows(s), DOMAIN log[s])

\* a finished pipeline with files of two years, one of them made of the
\* chunks of two dates
C3_Witness ==
    \E s \in Listed :
        /\ pc[s] = "done"
        /\ Cardinality(FilesOf(s)) = 2
        /\ \E q \in FilesOf(s) : Len(files[q]) >= 2

\* the part of the state that belongs to the pipeline of symbol s
PipelineOf(s) ==
    <<pc[s], cursor[s], year_data[s], flushed[s], waited[s], lastGap[s], log[s],
      runs[s], [q \in FilesOf(s) |-> files[q]]>>

\* C4: the step in which a pipeline fails, and the step in which the main
\* thread takes that failure from its future, leave every other pipeline as
\* it was and the main thread in its loop; and the main thread reaches its
\* completion point only when every listed symbol's pipeline is done or has
\* failed, the failures logged.
C4_FailureIsolated ==
    [][/\ \A s \in AllSymbols :
             (pc[s] # "failed" /\ pc'[s] = "failed") =>
                 /\ orch' = orch
                 /\ \A t \in AllSymbols \ {s} : PipelineOf(t)' = PipelineOf(t)
       /\ threadErrors' # threadErrors =>
             /\ orch' = orch
             /\ \A t \in AllSymbols : PipelineOf(t)' = PipelineOf(t)
       /\ orch' = "complete" =>
             \A s \in Listed' :
                 /\ Completed(s)'
                 /\ pc'[s] = "failed" => s \in threadErrors'
      ]_vars

\* the main thread is at its completion point, one pipeline has failed and
\* another has finished and written a file
C4_Witness ==
    /\ orch = "complete"
    /\ \E s, t \in Listed :
          /\ pc[s] = "failed"
          /\ s \in threadErrors
          /\ pc[t] = "done"
          /\ FilesOf(t) # {}

\* C5: never more than min(configured maximum, number of symbols) pipelines
\* are active; each listed symbol is submitted once and its pipeline entered
\* at most once, exactly once by the time the main thread completes; no
\* pipeline exists for another symbol.
C5_BoundedPool ==
    /\ Cardinality(Active) <= Min(ConfiguredMax, Len(symbols))
    /\ \A s \in Listed :
          /\ Cardinality({i \in DOMAIN futures : futures[i] = s}) <= 1
          /\ orch # "submit" => s \in Range(futures)
          /\ runs[s] <= 1
          /\ orch = "complete" => runs[s] = 1
    /\ \A s \in AllSymbols \ Listed : pc[s] = "idle" /\ runs[s] = 0
    /\ Range(futures) \subseteq Listed

\* the pool is full while a submitted pipeline waits for a worker
C5_Witness ==
    /\ Cardinality(Active) = Min(ConfiguredMax, Len(symbols))
    /\ Cardinality(Active) < Len(symbols)
    /\ \E s \in Listed : pc[s] = "queued"

====
